---- MODULE Spec2Model ----
(***************************************************************************)
(* Model of the error-context crate (src/src/lib.rs): the WithContext /    *)
(* WrapContext contracts, the ErrorContext envelope, the ErrorNoContext    *)
(* root-cause marker and the Result / closure combinators, together with   *)
(* the FooError context-aware error of the crate's test module.            *)
(*                                                                         *)
(* A behaviour is one expression chain: a Result<O, E> value `res` of      *)
(* static error type `ety` through which combinators are applied one       *)
(* after the other, as the tests of the crate do.                          *)
(***************************************************************************)
EXTENDS Integers, Sequences, FiniteSets, TLC

VARIABLES
    res,        \* the current Result<O, E> value of the chain
    ety,        \* static error type E of `res`, outermost constructor first
    pre,        \* the Result value the last combinator was applied to
    last,       \* the last combinator: its name, token and closure-call log
    orig,       \* the Result value the chain started from
    attached,   \* tokens handed to an attachment on the failure path, in order
    steps       \* number of combinators applied so far

vars == <<res, ety, pre, last, orig, attached, steps>>

\* Longest chain of combinators explored.
MaxSteps == 3

\* ------------------------------------------------------------------------
\* Values

\* Context tokens used by the tests of the crate.
Tokens ==
    {"doing stuff", "doing other stuff", "opening file", "processing fish sticks"}

\* Success values O.
Values == {"()", "fish"}

\* Option<T>
None == <<>>
Some(x) == <<x>>

\* Result<O, E>
Ok(v) == [ok |-> TRUE, val |-> v]
Err(e) == [ok |-> FALSE, err |-> e]

\* A context-oblivious failure (std::io::Error in the tests): a display
\* message and an optional underlying cause.
RawError(msg, source) == [kind |-> "Error", msg |-> msg, source |-> source]

RootCause == RawError("disk unplugged", None)

RawErrors ==
    { RawError(m, s) : m \in {"oh no!", "file is no good"},
                       s \in {None, Some(RootCause)} }

\* FooError in its zero-context state
FooErrors ==
    { [kind |-> "Foo", context |-> <<>>] }
    \cup { [kind |-> "Bar", num |-> n, context |-> <<>>] : n \in {1, 2} }

FooKinds == {"Foo", "Bar", "IoError"}

\* pub struct ErrorNoContext<E>(pub E)
ErrorNoContext(e) == [kind |-> "ErrorNoContext", f0 |-> e]

\* pub struct ErrorContext<E, C> { pub error: E, pub context: C }
ErrorContext(error, context) ==
    [kind |-> "ErrorContext", error |-> error, context |-> context]

\* ------------------------------------------------------------------------
\* Closures and Result::map_err.  A computation carries the Result it has
\* produced and the log of the closures it has called so far.

Ret(r) == [res |-> r, log |-> <<>>]

\* body: FnOnce() -> Result<O, E>
call_body(body, log) == [res |-> body.returns, log |-> Append(log, "body")]

\* context: FnOnce() -> C
call_context(context, log) ==
    [val |-> context.produces, log |-> Append(log, "context")]

\* Result::map_err(op): `applied` is the outcome of op on the Err value; it
\* is looked at on the Err side only, an Ok passes through.
map_err(m, applied) ==
    IF m.res.ok
    THEN m
    ELSE [res |-> Err(applied.val), log |-> applied.log]

\* ------------------------------------------------------------------------
\* The context-carrier contracts

\* slip: the marker itself is kept as the envelope's inner failure
ErrorNoContext_with_context_keeps_marker(self, context) ==
    ErrorContext(self, context)

\* impl<E, C> WithContext<C> for ErrorNoContext<E>
ErrorNoContext_with_context(self, context) ==
    ErrorContext(self.f0, context)

\* slip: the envelope's own context is overwritten in place
ErrorContext_with_context_overwrites(self, context) ==
    [self EXCEPT !.context = context]

\* impl<E, C, C2> WithContext<C2> for ErrorContext<E, C>
ErrorContext_with_context(self, context) ==
    ErrorContext(self, context)

\* slip: the message replaces the context vector
FooError_with_context_overwrites(self, message) ==
    [self EXCEPT !.context = <<message>>]

\* slip: the value is rebuilt as the Foo variant
FooError_with_context_as_foo(self, message) ==
    [kind |-> "Foo", context |-> Append(self.context, message)]

\* slip: the Bar arm does not push
FooError_with_context_bar_skips(self, message) ==
    IF self.kind = "Bar"
    THEN self
    ELSE [self EXCEPT !.context = Append(@, message)]

\* impl WithContext<String> for FooError (tests): every variant pushes the
\* message onto its own context vector
FooError_with_context(self, message) ==
    [self EXCEPT !.context = Append(@, message)]

\* e.with_context(context), resolved on the type of e
with_context(e, context) ==
    CASE e.kind = "ErrorNoContext" -> ErrorNoContext_with_context(e, context)
      [] e.kind = "ErrorContext"   -> ErrorContext_with_context(e, context)
      [] e.kind \in FooKinds       -> FooError_with_context(e, context)

\* impl<E, C> WrapContext<C> for E
wrap_context(self, context) ==
    ErrorContext(self, context)

\* impl<T> ToErrorNoContext<T> for T
to_root_cause(self) ==
    ErrorNoContext(self)

\* impl From<ErrorContext<io::Error, String>> for FooError (tests)
from(error_context) ==
    [kind    |-> "IoError",
     error   |-> error_context.error,
     context |-> <<error_context.context>>]

\* ------------------------------------------------------------------------
\* Display and Error::source

RECURSIVE Display(_)
\* slip: the arguments of write! are swapped
Display_swapped(e) ==
    CASE e.kind = "Error"          -> e.msg
      [] e.kind = "ErrorNoContext" -> Display(e.f0)
      [] e.kind = "ErrorContext"   ->
            "while " \o Display(e.error) \o " got error: " \o e.context

\* impl Display for ErrorNoContext / ErrorContext; a raw failure shows its
\* message
Display(e) ==
    CASE e.kind = "Error"          -> e.msg
      [] e.kind = "ErrorNoContext" -> Display(e.f0)
      [] e.kind = "ErrorContext"   ->
            "while " \o e.context \o " got error: " \o Display(e.error)

RECURSIVE source(_)
\* slip: the envelope reports its inner failure as its cause
source_inner(e) ==
    CASE e.kind = "Error"          -> e.source
      [] e.kind = "ErrorNoContext" -> source(e.f0)
      [] e.kind = "ErrorContext"   -> Some(e.error)

\* impl Error for ErrorNoContext / ErrorContext; a raw failure returns its
\* own cause
source(e) ==
    CASE e.kind = "Error"          -> e.source
      [] e.kind = "ErrorNoContext" -> source(e.f0)
      [] e.kind = "ErrorContext"   -> source(e.error)

\* ------------------------------------------------------------------------
\* Result and closure combinators

\* the closure |e| e.with_context(context)
closure_with_context(e, context, log) ==
    [val |-> with_context(e, context), log |-> log]

\* the closure |e| e.with_context(context())
closure_with_context_fn(e, context, log) ==
    LET c == call_context(context, log)
    IN  [val |-> with_context(e, c.val), log |-> c.log]

\* the closure |e| e.wrap_context(context)
closure_wrap_context(e, context, log) ==
    [val |-> wrap_context(e, context), log |-> log]

\* the closure |e| e.wrap_context(context())
closure_wrap_context_fn(e, context, log) ==
    LET c == call_context(context, log)
    IN  [val |-> wrap_context(e, c.val), log |-> c.log]

\* ResultErrorWhile::error_while
error_while(self, context) ==
    LET m == Ret(self)
    IN  map_err(m, closure_with_context(m.res.err, context, m.log))

\* ResultErrorWhile::error_while_with
error_while_with(self, context) ==
    LET m == Ret(self)
    IN  map_err(m, closure_with_context_fn(m.res.err, context, m.log))

\* MapErrorNoContext::map_error_context
map_error_context(self) ==
    LET m == Ret(self)
    IN  map_err(m, [val |-> to_root_cause(m.res.err), log |-> m.log])

\* ResultErrorWhileWrap::wrap_error_while
wrap_error_while(self, context) ==
    LET m == Ret(self)
    IN  map_err(m, closure_wrap_context(m.res.err, context, m.log))

\* slip: the token is built before the result is looked at
wrap_error_while_with_eager(self, context) ==
    LET c == call_context(context, <<>>)
        m == [res |-> self, log |-> c.log]
    IN  map_err(m, closure_wrap_context(m.res.err, c.val, m.log))

\* ResultErrorWhileWrap::wrap_error_while_with
wrap_error_while_with(self, context) ==
    LET m == Ret(self)
    IN  map_err(m, closure_wrap_context_fn(m.res.err, context, m.log))

\* slip: the failure is wrapped instead of given the context
in_context_of_wraps(context, body) ==
    LET m == call_body(body, <<>>)
    IN  map_err(m, closure_wrap_context(m.res.err, context, m.log))

\* pub fn in_context_of
in_context_of(context, body) ==
    LET m == call_body(body, <<>>)
    IN  map_err(m, closure_with_context(m.res.err, context, m.log))

\* slip: the token is built before the body runs
in_context_of_with_early(context, body) ==
    LET c == call_context(context, <<>>)
        m == call_body(body, c.log)
    IN  map_err(m, closure_with_context(m.res.err, c.val, m.log))

\* pub fn in_context_of_with
in_context_of_with(context, body) ==
    LET m == call_body(body, <<>>)
    IN  map_err(m, closure_with_context_fn(m.res.err, context, m.log))

\* pub fn wrap_in_context_of
wrap_in_context_of(context, body) ==
    LET m == call_body(body, <<>>)
    IN  map_err(m, closure_wrap_context(m.res.err, context, m.log))

\* pub fn wrap_in_context_of_with
wrap_in_context_of_with(context, body) ==
    LET m == call_body(body, <<>>)
    IN  map_err(m, closure_wrap_context_fn(m.res.err, context, m.log))

\* the `?` operator of the tests: Err(e) leaves as Err(From::from(e))
question_mark(self) ==
    LET m == Ret(self)
    IN  map_err(m, [val |-> from(m.res.err), log |-> m.log])

\* ------------------------------------------------------------------------
\* Static types.  A type is the sequence of its constructors, outermost
\* first: <<"ErrorContext", "ErrorNoContext", "Error">> is
\* ErrorContext<ErrorNoContext<io::Error>, String>.

\* the impls of WithContext: FooError, ErrorNoContext<E>, ErrorContext<E, C>
ImplsWithContext(t) == Head(t) \in {"FooError", "ErrorNoContext", "ErrorContext"}

\* WithContext::ContextError
ContextErrorType(t) ==
    CASE Head(t) = "FooError"       -> t
      [] Head(t) = "ErrorNoContext" -> <<"ErrorContext">> \o Tail(t)
      [] Head(t) = "ErrorContext"   -> <<"ErrorContext">> \o t

\* E: WithContext<C, ContextError = E>, the bound of ResultErrorWhile
ImplsErrorWhile(t) == ImplsWithContext(t) /\ ContextErrorType(t) = t

\* E: Display (and E: Error): FooError implements neither
ImplsDisplay(t) == \A i \in 1..Len(t) : t[i] # "FooError"

\* ------------------------------------------------------------------------
\* The chain

InitialResults ==
    { <<Ok(v), t>> : v \in Values, t \in {<<"Error">>, <<"FooError">>} }
    \cup { <<Err(e), <<"Error">>>> : e \in RawErrors }
    \cup { <<Err(e), <<"FooError">>>> : e \in FooErrors }

Init ==
    \E i \in InitialResults :
        /\ res = i[1]
        /\ ety = i[2]
        /\ pre = i[1]
        /\ orig = i[1]
        /\ last = [op |-> "init", tok |-> <<>>, log |-> <<>>]
        /\ attached = <<>>
        /\ steps = 0

\* One combinator applied: m is what it computed, t the new static type,
\* tok the token handed to it (as a sequence: map_error_context and `?`
\* take none).
Apply(op, tok, m, t) ==
    /\ steps < MaxSteps
    /\ res' = m.res
    /\ ety' = t
    /\ pre' = res
    /\ last' = [op |-> op, tok |-> tok, log |-> m.log]
    /\ attached' = IF res.ok THEN attached ELSE attached \o tok
    /\ steps' = steps + 1
    /\ UNCHANGED orig

ErrorWhile ==
    \E c \in Tokens :
        /\ ImplsErrorWhile(ety)
        /\ Apply("error_while", <<c>>, error_while(res, c), ety)

ErrorWhileWith ==
    \E c \in Tokens :
        /\ ImplsErrorWhile(ety)
        /\ Apply("error_while_with", <<c>>,
                 error_while_with(res, [produces |-> c]), ety)

MapErrorContext ==
    LET m == map_error_context(res)
    IN  Apply("map_error_context", <<>>, m, <<"ErrorNoContext">> \o ety)

WrapErrorWhile ==
    \E c \in Tokens :
        Apply("wrap_error_while", <<c>>, wrap_error_while(res, c),
              <<"ErrorContext">> \o ety)

WrapErrorWhileWith ==
    \E c \in Tokens :
        Apply("wrap_error_while_with", <<c>>,
              wrap_error_while_with(res, [produces |-> c]),
              <<"ErrorContext">> \o ety)

InContextOf ==
    \E c \in Tokens :
        /\ ImplsWithContext(ety)
        /\ Apply("in_context_of", <<c>>,
                 in_context_of(c, [returns |-> res]), ContextErrorType(ety))

InContextOfWith ==
    \E c \in Tokens :
        /\ ImplsWithContext(ety)
        /\ Apply("in_context_of_with", <<c>>,
                 in_context_of_with([produces |-> c], [returns |-> res]),
                 ContextErrorType(ety))

WrapInContextOf ==
    \E c \in Tokens :
        Apply("wrap_in_context_of", <<c>>,
              wrap_in_context_of(c, [returns |-> res]),
              <<"ErrorContext">> \o ety)

WrapInContextOfWith ==
    \E c \in Tokens :
        Apply("wrap_in_context_of_with", <<c>>,
              wrap_in_context_of_with([produces |-> c], [returns |-> res]),
              <<"ErrorContext">> \o ety)

\* `?` into Result<_, FooError>: From<ErrorContext<io::Error, String>>
QuestionMark ==
    /\ ety = <<"ErrorContext", "Error">>
    /\ Apply("?", <<>>, question_mark(res), <<"FooError">>)

Next ==
    \/ ErrorWhile
    \/ ErrorWhileWith
    \/ MapErrorContext
    \/ WrapErrorWhile
    \/ WrapErrorWhileWith
    \/ InContextOf
    \/ InContextOfWith
    \/ WrapInContextOf
    \/ WrapInContextOfWith
    \/ QuestionMark

Spec == Init /\ [][Next]_vars

\* ------------------------------------------------------------------------
\* Vocabulary of the properties

EagerOps == {"error_while", "wrap_error_while", "in_context_of", "wrap_in_context_of"}

DeferredOps ==
    {"error_while_with", "wrap_error_while_with",
     "in_context_of_with", "wrap_in_context_of_with"}

ScopedOps ==
    {"in_context_of", "in_context_of_with",
     "wrap_in_context_of", "wrap_in_context_of_with"}

WithContextOps ==
    {"error_while", "error_while_with", "in_context_of", "in_context_of_with"}

WrapOps ==
    {"wrap_error_while", "wrap_error_while_with",
     "wrap_in_context_of", "wrap_in_context_of_with"}

AttachOps == EagerOps \cup DeferredOps

Combinators == AttachOps \cup {"map_error_context"}

\* number of calls of the closure `who` the last combinator made
Calls(who) == Cardinality({i \in 1..Len(last.log) : last.log[i] = who})

\* the token of the last attachment
Tok == last.tok[1]

\* ErrorContext<..ErrorContext<io::Error, C>.., C>: envelopes over a raw failure
IsEnvelopeOverRaw(t) ==
    /\ Len(t) >= 2
    /\ t[Len(t)] = "Error"
    /\ \A i \in 1..(Len(t) - 1) : t[i] = "ErrorContext"

RECURSIVE Clauses(_, _)
\* "while cn got error: ... while c1 got error: d" for cs = <<c1, .., cn>>
Clauses(d, cs) ==
    IF cs = <<>>
    THEN d
    ELSE "while " \o cs[Len(cs)] \o " got error: "
            \o Clauses(d, SubSeq(cs, 1, Len(cs) - 1))

RECURSIVE Unwrap(_, _)
\* the .error field read n times
Unwrap(e, n) == IF n = 0 THEN e ELSE Unwrap(e.error, n - 1)

RECURSIVE Contexts(_)
\* every token a failure value records, innermost first
Contexts(e) ==
    CASE e.kind = "Error"          -> <<>>
      [] e.kind = "ErrorNoContext" -> Contexts(e.f0)
      [] e.kind = "ErrorContext"   -> Contexts(e.error) \o <<e.context>>
      [] e.kind \in FooKinds       -> e.context

RECURSIVE Core(_)
\* the underlying failure with every context layer taken off
Core(e) ==
    CASE e.kind = "Error"          -> e
      [] e.kind = "ErrorNoContext" -> Core(e.f0)
      [] e.kind = "ErrorContext"   -> Core(e.error)
      [] e.kind \in FooKinds       -> [e EXCEPT !.context = <<>>]

\* ------------------------------------------------------------------------
\* Properties

\* C1: a combinator applied to Ok(v) (or a scoped form whose closure returns
\* Ok(v)) returns Ok(v) unchanged and never calls the deferred
\* token-producing function.
C1_PassThroughOnSuccess ==
    (last.op \in Combinators /\ pre.ok) =>
        /\ res = pre
        /\ Calls("context") = 0

C1_Witness ==
    /\ last.op = "wrap_in_context_of_with"
    /\ pre = Ok("fish")
    /\ res = Ok("fish")
    /\ last.log = <<"body">>

\* C2: the display of an envelope built by n >= 1 attachments c1..cn over a
\* raw failure with display d is "while cn got error: ... while c1 got
\* error: d", one clause per level, outermost first, nothing else.
C2_DisplayComposition ==
    (~res.ok /\ ImplsDisplay(ety)) =>
        /\ Head(ety) = "ErrorContext" => Len(attached) >= 1
        /\ Display(res.err) = Clauses(orig.err.msg, attached)

C2_Witness ==
    /\ ~res.ok
    /\ IsEnvelopeOverRaw(ety)
    /\ attached = <<"opening file", "processing fish sticks">>
    /\ Display(res.err) =
        "while processing fish sticks got error: while opening file got error: file is no good"

\* C3: attaching c2 to an envelope (e, c1) yields a new outer envelope whose
\* inner failure is the whole previous envelope and whose context is c2;
\* after n attachments over a raw failure exactly n unwraps reach it, every
\* level before that being an envelope with the token of its attachment.
C3_NestingIsStructural ==
    /\ (last.op \in AttachOps /\ ~pre.ok /\ pre.err.kind = "ErrorContext") =>
            /\ ~res.ok
            /\ res.err.kind = "ErrorContext"
            /\ res.err.error = pre.err
            /\ res.err.context = Tok
    /\ (~res.ok /\ IsEnvelopeOverRaw(ety)) =>
            LET n == Len(attached) IN
            /\ n = Len(ety) - 1
            /\ \A k \in 0..(n - 1) :
                    /\ Unwrap(res.err, k).kind = "ErrorContext"
                    /\ Unwrap(res.err, k).context = attached[n - k]
            /\ Unwrap(res.err, n) = orig.err

C3_Witness ==
    /\ last.op \in AttachOps
    /\ ~pre.ok
    /\ pre.err.kind = "ErrorContext"
    /\ IsEnvelopeOverRaw(ety)
    /\ Len(attached) = 2
    /\ res.err.error.kind = "ErrorContext"
    /\ res.err.error.error = orig.err

\* C4: every token attached to a failure, by whatever mix of combinators and
\* with a conversion into FooError in between, is still recorded in the
\* final failure value, in attachment order.
C4_ContextAccumulates ==
    ~res.ok => Contexts(res.err) = attached

C4_Witness ==
    /\ ~res.ok
    /\ res.err.kind = "IoError"
    /\ pre.err.kind = "IoError"
    /\ res.err.context = <<"doing stuff", "doing other stuff">>
    /\ attached = <<"doing stuff", "doing other stuff">>

\* C5: the cause lookup of an envelope (or marker) nested to any depth over
\* a raw failure e returns exactly e's own cause, none when e has none, and
\* never the inner failure itself.
C5_CauseChainTransparency ==
    (~res.ok /\ ImplsDisplay(ety)) =>
        /\ source(res.err) = orig.err.source
        /\ res.err.kind = "ErrorContext" => source(res.err) # Some(res.err.error)
        /\ res.err.kind = "ErrorNoContext" => source(res.err) # Some(res.err.f0)

C5_Witness ==
    /\ ~res.ok
    /\ IsEnvelopeOverRaw(ety)
    /\ Len(ety) = 3
    /\ orig.err.source = Some(RootCause)
    /\ source(res.err) = Some(RootCause)

\* C6: a combinator applied to Err(e) returns a failure, and the underlying
\* failure (its kind and its own fields) is carried unchanged inside it.
C6_FailureRemainsFailure ==
    (last.op \in Combinators /\ ~pre.ok) =>
        /\ ~res.ok
        /\ Core(res.err) = Core(pre.err)

C6_Witness ==
    /\ last.op = "error_while_with"
    /\ ~pre.ok
    /\ pre.err.kind = "Bar"
    /\ res.err.kind = "Bar"
    /\ res.err.num = 2

\* C7: converting a raw failure e to the root-cause marker and attaching c
\* gives the first-level envelope (error = e, context = c), the value and
\* display that wrap_context builds directly from e and c.
C7_RootCauseThenAttach ==
    /\ (last.op = "map_error_context" /\ ~pre.ok) =>
            /\ res.err.kind = "ErrorNoContext"
            /\ \A c \in Tokens :
                    with_context(res.err, c) = wrap_context(pre.err, c)
    /\ (last.op \in {"in_context_of", "in_context_of_with"}
            /\ ~pre.ok /\ pre.err.kind = "ErrorNoContext") =>
            /\ res = wrap_error_while(Err(pre.err.f0), Tok).res
            /\ res.err.error = pre.err.f0
            /\ res.err.context = Tok
            /\ ImplsDisplay(ety) =>
                    Display(res.err) =
                        "while " \o Tok \o " got error: " \o Display(pre.err)

C7_Witness ==
    /\ last.op = "in_context_of"
    /\ ~orig.ok
    /\ orig.err.kind = "Error"
    /\ pre = Err(ErrorNoContext(orig.err))
    /\ res = Err(ErrorContext(orig.err, "opening file"))
    /\ Display(res.err) = "while opening file got error: file is no good"

\* C8: in_context_of(c, body) equals body's result passed to error_while(c),
\* wrap_in_context_of(c, body) equals it passed to wrap_error_while(c); on
\* failure c is attached exactly once, and the closure runs exactly once.
C8_ScopedClosureEquivalence ==
    /\ (last.op = "in_context_of" /\ ImplsErrorWhile(ety)) =>
            res = error_while(pre, Tok).res
    /\ last.op = "wrap_in_context_of" =>
            res = wrap_error_while(pre, Tok).res
    /\ last.op \in {"in_context_of", "wrap_in_context_of"} =>
            /\ Calls("body") = 1
            /\ pre.ok => res = pre
            /\ ~pre.ok =>
                    /\ ~res.ok
                    /\ Contexts(res.err) = Contexts(pre.err) \o <<Tok>>

C8_Witness ==
    /\ last.op = "in_context_of"
    /\ pre = Err([kind |-> "Foo", context |-> <<>>])
    /\ res = Err([kind |-> "Foo", context |-> <<"doing stuff">>])
    /\ last.log = <<"body">>

\* C9: attaching a token to a FooError in its zero-context state (through
\* with_context) yields the same variant with its own fields unchanged and a
\* context holding that token and nothing else.
C9_SingleLayerAttach ==
    (last.op \in WithContextOps /\ ~pre.ok
        /\ pre.err.kind \in FooKinds /\ pre.err.context = <<>>) =>
            /\ ~res.ok
            /\ res.err = [pre.err EXCEPT !.context = <<Tok>>]

C9_Witness ==
    /\ last.op = "error_while"
    /\ pre = Err([kind |-> "Bar", num |-> 1, context |-> <<>>])
    /\ res = Err([kind |-> "Bar", num |-> 1, context |-> <<"doing stuff">>])

\* C10: on the failure path a deferred-token combinator calls the
\* token-producing function exactly once, in the scoped forms after the body
\* closure has returned, and its result is that of the eager combinator
\* given the produced token.
C10_DeferredOnFailure ==
    (last.op \in DeferredOps /\ ~pre.ok) =>
        /\ Calls("context") = 1
        /\ last.op \in ScopedOps => last.log = <<"body", "context">>
        /\ last.op \notin ScopedOps => last.log = <<"context">>
        /\ last.op = "error_while_with" => res = error_while(pre, Tok).res
        /\ last.op = "wrap_error_while_with" =>
                res = wrap_error_while(pre, Tok).res
        /\ last.op = "in_context_of_with" =>
                res = in_context_of(Tok, [returns |-> pre]).res
        /\ last.op = "wrap_in_context_of_with" =>
                res = wrap_in_context_of(Tok, [returns |-> pre]).res

C10_Witness ==
    /\ last.op = "in_context_of_with"
    /\ ~pre.ok
    /\ last.log = <<"body", "context">>
    /\ res.err.context = "opening file"

====
